---- MODULE Spec2Model ----
(***************************************************************************)
(* A model of happler's TreeBuilder (happler/tree/tree_builder.py).        *)
(*                                                                         *)
(* The genotype matrix has NumVariants columns.  A Variant is the pair of  *)
(* the row of gens.variants it was built from (id) and the index it was    *)
(* given (idx); a Haplotype is the tuple of its (Variant, allele) nodes.   *)
(* P-values and the threshold are rationals over one common denominator,   *)
(* kept as their integer numerators, so that p >= t / n is p * n >= t.     *)
(* The association test is an external collaborator: it returns any vector *)
(* of p-values, one per column it was handed, or fails.                    *)
(***************************************************************************)
EXTENDS Integers, Sequences, FiniteSets, TLC

\* ---------------------------------------------------------------- bounds
NumVariants == 3
MaxPval == 1
MaxThresh == 3
MaxTV == 10

Alleles == {0, 1}
PVals == 0..MaxPval
Threshs == 1..MaxThresh
Roots == (0 - NumVariants - 1)..NumVariants

\* self.tree = None
None == <<>>
NoResult == [pval |-> -1]

\* ---------------------------------------------------------------- state
VARIABLES
    pval_thresh,   \* self.method.pval_thresh
    tree,          \* self.tree: None, or the arena of the Tree
    stack,         \* the frames of run's _create_tree recursion, innermost last
    in_engine,     \* self.method.run has been called and has not come back
    raised,        \* the exception the latest step raised out of run(), or "none"
    returned,      \* whether a run() call has returned self.tree
    tests,         \* the log of the _find_split calls: their haplotype, the
                   \* columns and p-values of their association test, their outcome
    first,         \* the tree and the log of an earlier builder on the same data
    xl             \* the index translation applied to drawn inputs

vars == <<pval_thresh, tree, stack, in_engine, raised, returned, tests, first, xl>>

builder == <<pval_thresh, tree, stack, in_engine, raised, returned, tests>>

\* ------------------------------------------------ numpy / collaborators
\* a[i] on an axis of length n: i in -n..n-1 is accepted, negative i counts
\* from the end; anything else raises IndexError
InBounds(i, n) == i >= 0 - n /\ i < n

NormIndex(i, n) == IF i < 0 THEN i + n ELSE i

\* Variant.from_np(self.gens.variants[i], idx=i)
VariantFromNp(i, n) == [id |-> NormIndex(i, n), idx |-> i]

\* Haplotype.node_indices: the idx of every node, in path order
NodeIndices(hap) == [j \in 1..Len(hap) |-> hap[j][1].idx]

\* sorted(...)  (Unsorted: the tuple as it is)
Unsorted(s) == s

Sorted(s) == SortSeq(s, LAMBDA a, b: a < b)

RECURSIVE Ascending(_, _, _)
Ascending(S, lo, hi) ==
    IF lo > hi THEN <<>>
    ELSE IF lo \in S THEN <<lo>> \o Ascending(S, lo + 1, hi)
    ELSE Ascending(S, lo + 1, hi)

\* Haplotype.transform: np.delete(gens.data, node_indices, axis=1).  The
\* result keeps, in their order, the columns no node index addresses; it is
\* given here as the original index of each remaining column.
Transform(node_indices, n) ==
    LET gone == {NormIndex(node_indices[j], n) : j \in DOMAIN node_indices}
    IN  Ascending((0..(n - 1)) \ gone, 0, n - 1)

\* Haplotype.from_node / Haplotype.append: a new tuple, the parent's nodes
\* followed by (node, allele)
HapAppend(parent_hap, node, allele) == Append(parent_hap, <<node, allele>>)

\* Tree(root_node)
NewTree(root_node) ==
    <<[variant |-> root_node, parent |-> -1, allele |-> -1, results |-> NoResult]>>

\* Tree.add_node(variant, parent_idx, allele, results): the grown arena; the
\* index of the new node is the arena's former length
AddNodeTo(t, variant, parent_idx, allele, results) ==
    Append(t, [variant |-> variant, parent |-> parent_idx,
               allele |-> allele, results |-> results])

\* -------------------------------------------------------- TreeBuilder
\* run: `if self.tree is not None`
\* (TreeExistsWrong: a tree of the root alone counts as none)
TreeExistsWrong(t) == Len(t) > 1

TreeExists(t) == t /= None

\* _create_tree's default argument parent_hap = None, from which
\* Haplotype.from_node starts: no nodes
DefaultParentHap == <<>>

\* _find_split: `if hap_matrix.shape[1] == 0`
\* (NoColumnsWrong: a test that no matrix meets)
NoColumnsWrong(cols) == Len(cols) < 0

NoColumns(cols) == Len(cols) = 0

\* p_values.argmin(): the first position (0-based) holding the minimum
\* (ArgMinLast: the last one)
ArgMinLast(p) ==
    CHOOSE k \in 0..(Len(p) - 1) :
        /\ \A j \in 0..(Len(p) - 1) : p[k + 1] <= p[j + 1]
        /\ \A j \in (k + 1)..(Len(p) - 1) : p[j + 1] /= p[k + 1]

\* a selection among tied minima that differs from one builder to the next
ArgMinUnstable(p) ==
    CHOOSE k \in 0..(Len(p) - 1) :
        /\ \A j \in 0..(Len(p) - 1) : p[k + 1] <= p[j + 1]
        /\ IF first.tree = <<>>
           THEN \A j \in 0..(k - 1) : p[j + 1] /= p[k + 1]
           ELSE \A j \in (k + 1)..(Len(p) - 1) : p[j + 1] /= p[k + 1]

RECURSIVE ArgMinScan(_, _, _)
ArgMinScan(p, j, k) ==
    IF j >= Len(p) THEN k
    ELSE IF p[j + 1] < p[k + 1] THEN ArgMinScan(p, j + 1, j)
    ELSE ArgMinScan(p, j + 1, k)

ArgMin(p) == ArgMinScan(p, 1, 0)

\* check_terminate_branch: pval >= self.method.pval_thresh / num_tests
\* (CheckTerminateStrict: with > for >=)
CheckTerminateStrict(pval, num_tests, thresh) == pval * num_tests > thresh

CheckTerminateBranch(pval, num_tests, thresh) == pval * num_tests >= thresh

\* _find_split step 5: the loop over sorted(parent.node_indices)
\* (TranslateOffByOne: breaking at gt_idx >= best_p_idx)
RECURSIVE TranslateOffByOne(_, _, _)
TranslateOffByOne(sorted_idxs, j, best_p_idx) ==
    IF j > Len(sorted_idxs) THEN best_p_idx
    ELSE IF sorted_idxs[j] >= best_p_idx THEN best_p_idx
    ELSE TranslateOffByOne(sorted_idxs, j + 1, best_p_idx + 1)

RECURSIVE Translate(_, _, _)
Translate(sorted_idxs, j, best_p_idx) ==
    IF j > Len(sorted_idxs) THEN best_p_idx
    ELSE IF sorted_idxs[j] > best_p_idx THEN best_p_idx
    ELSE Translate(sorted_idxs, j + 1, best_p_idx + 1)

\* the genotype-matrix index _find_split hands to self.gens.variants[...]
\* (BestIndexUntranslated: the compacted index as it is)
BestIndexUntranslated(node_indices, best_p_idx) == best_p_idx

BestIndex(node_indices, best_p_idx) ==
    Translate(Sorted(node_indices), 1, best_p_idx)

\* _create_tree recurses under the node add_node returned
\* (RecurseUnderParent: under its own parent_idx again)
RecurseUnderParent(new_node_idx, parent_idx) == parent_idx

RecurseUnder(new_node_idx, parent_idx) == new_node_idx

\* _create_tree: `alleles = (0, 1)`, gone through in this order
\* (allelesSwapped: (1, 0))
allelesSwapped == <<1, 0>>

alleles == <<0, 1>>

\* _find_split hands len(p_values) to check_terminate_branch as num_tests
\* (NumTestsLess: the candidates without the selected one)
NumTestsLess(p_values) == Len(p_values) - 1

NumTests(p_values) == Len(p_values)

\* Neither _find_split nor _create_tree nor run has a handler: an exception
\* raised below run leaves none of the frames of the recursion
\* (UnwindCaught: the loop of the innermost _create_tree swallows it and goes
\* on with its next allele)
UnwindCaught(frames) == [frames EXCEPT ![Len(frames)].allele = @ + 1]

Unwind(frames) == <<>>

\* run has set self.tree before _create_tree and nothing unsets it when an
\* exception goes through run
\* (TreeDiscarded: self.tree is None again)
TreeDiscarded(t) == None

TreeAfterRaise(t) == t

\* ------------------------------------------------------------ the builder
NoFirst == [tree |-> None, tests |-> <<>>]

XlIdle == [nv |-> 0, included |-> <<>>, k |-> 0, out |-> -1, done |-> TRUE]

\* TreeBuilder(genotypes, phenotypes, method): self.tree = None
FreshBuilder ==
    /\ tree = None
    /\ stack = <<>>
    /\ in_engine = FALSE
    /\ raised = "none"
    /\ returned = FALSE
    /\ tests = <<>>

Init ==
    /\ pval_thresh \in Threshs
    /\ FreshBuilder
    /\ first = NoFirst
    /\ xl = XlIdle

Top == stack[Len(stack)]

Latest == tests[Len(tests)]

\* the frame of _create_tree(parent, parent_hap, parent_idx) entering its loop;
\* its field allele is the position of the loop in the tuple alleles
Frame(parent, parent_hap, parent_idx) ==
    [parent |-> parent, parent_hap |-> parent_hap, parent_idx |-> parent_idx,
     allele |-> 0]

\* the loop variable allele of the innermost frame
Allele == alleles[Top.allele + 1]

\* new_parent_hap of the innermost frame's current allele
\* (NewParentHapShared: the frame's parent_hap still holds what the loop's
\* first pass appended to it)
NewParentHapShared ==
    IF Top.allele = 0
    THEN HapAppend(Top.parent_hap, Top.parent, Allele)
    ELSE HapAppend(HapAppend(Top.parent_hap, Top.parent, alleles[1]),
                   Top.parent, Allele)

NewParentHap == HapAppend(Top.parent_hap, Top.parent, Allele)

\* the columns of parent.transform(self.gens)
HapColumns(hap) == Transform(NodeIndices(hap), NumVariants)

\* `continue`: the loop goes on with the next allele
\* (NextAlleleBreak: the loop is left)
NextAlleleBreak == [stack EXCEPT ![Len(stack)].allele = Len(alleles)]

NextAllele == [stack EXCEPT ![Len(stack)].allele = @ + 1]

InLoop == stack /= <<>> /\ ~in_engine /\ Top.allele < Len(alleles)

\* the entry of a _find_split call in the log
Entry(engine, outcome) ==
    [parent_idx |-> Top.parent_idx, allele |-> Allele, hap |-> NewParentHap,
     cols |-> HapColumns(NewParentHap), engine |-> engine, policy |-> FALSE,
     outcome |-> outcome, pvals |-> <<>>, best_p_idx |-> -1, num_tests |-> -1]

\* run(root).  A call comes from the builder's user, between builds, or from
\* inside the association test while it runs.
Run(root) ==
    /\ stack = <<>> \/ in_engine
    /\ IF TreeExists(tree)
       THEN /\ raised' = "AssertionError"
            /\ UNCHANGED <<tree, stack, in_engine, returned, tests>>
       ELSE IF ~InBounds(root, NumVariants)
       THEN /\ raised' = "IndexError"
            /\ UNCHANGED <<tree, stack, in_engine, returned, tests>>
       ELSE LET root_node == VariantFromNp(root, NumVariants)
            IN  /\ tree' = NewTree(root_node)
                /\ stack' = Append(stack, Frame(root_node, DefaultParentHap, 0))
                /\ in_engine' = FALSE
                /\ raised' = "none"
                /\ UNCHANGED <<returned, tests>>
    /\ UNCHANGED <<pval_thresh, first, xl>>

\* _find_split returns (None, None): no column is left
Leaf ==
    /\ InLoop
    /\ NoColumns(HapColumns(NewParentHap))
    /\ tests' = Append(tests, Entry(FALSE, "leaf"))
    /\ stack' = NextAllele
    /\ raised' = "none"
    /\ UNCHANGED <<pval_thresh, tree, in_engine, returned, first, xl>>

\* _find_split calls self.method.run(hap_matrix.sum(axis=2), self.phens.data)
CallEngine ==
    /\ InLoop
    /\ ~NoColumns(HapColumns(NewParentHap))
    /\ in_engine' = TRUE
    /\ tests' = Append(tests, Entry(TRUE, "testing"))
    /\ raised' = "none"
    /\ UNCHANGED <<pval_thresh, tree, stack, returned, first, xl>>

\* the association test raises: nothing catches it before run's caller
EngineFails ==
    /\ in_engine
    /\ in_engine' = FALSE
    /\ stack' = Unwind(stack)
    /\ tree' = TreeAfterRaise(tree)
    /\ raised' = "EngineError"
    /\ tests' = [tests EXCEPT ![Len(tests)].outcome = "engine_error"]
    /\ UNCHANGED <<pval_thresh, returned, first, xl>>

\* results.data["pval"]: one p-value per column
PvalVectors(n) == [1..n -> PVals]

Tested(pvals, outcome) ==
    /\ in_engine' = FALSE
    /\ tests' = [tests EXCEPT ![Len(tests)].policy = TRUE,
                              ![Len(tests)].outcome = outcome,
                              ![Len(tests)].pvals = pvals,
                              ![Len(tests)].best_p_idx = ArgMin(pvals),
                              ![Len(tests)].num_tests = NumTests(pvals)]

\* the test came back and check_terminate_branch is true:
\* _find_split returns (None, best)
Terminate(pvals) ==
    /\ in_engine
    /\ CheckTerminateBranch(pvals[ArgMin(pvals) + 1], NumTests(pvals), pval_thresh)
    /\ Tested(pvals, "terminate")
    /\ stack' = NextAllele
    /\ raised' = "none"
    /\ UNCHANGED <<pval_thresh, tree, returned, first, xl>>

\* the test came back, the branch goes on: the node is added and
\* _create_tree is called for it
AddNode(pvals) ==
    LET best_p_idx == ArgMin(pvals)
        gt_idx == BestIndex(NodeIndices(Latest.hap), best_p_idx)
        best_variant == VariantFromNp(gt_idx, NumVariants)
        new_node_idx == Len(tree)
    IN  /\ in_engine
        /\ ~CheckTerminateBranch(pvals[best_p_idx + 1], NumTests(pvals), pval_thresh)
        /\ InBounds(gt_idx, NumVariants)
        /\ Tested(pvals, "add")
        /\ tree' = AddNodeTo(tree, best_variant, Top.parent_idx, Allele,
                             [pval |-> pvals[best_p_idx + 1]])
        /\ stack' = Append(stack, Frame(best_variant, Latest.hap,
                                        RecurseUnder(new_node_idx, Top.parent_idx)))
        /\ raised' = "none"
        /\ UNCHANGED <<pval_thresh, returned, first, xl>>

\* the test came back, the branch goes on, and self.gens.variants[best_p_idx]
\* raises IndexError
SplitIndexError(pvals) ==
    LET best_p_idx == ArgMin(pvals)
        gt_idx == BestIndex(NodeIndices(Latest.hap), best_p_idx)
    IN  /\ in_engine
        /\ ~CheckTerminateBranch(pvals[best_p_idx + 1], NumTests(pvals), pval_thresh)
        /\ ~InBounds(gt_idx, NumVariants)
        /\ Tested(pvals, "index_error")
        /\ stack' = Unwind(stack)
        /\ tree' = TreeAfterRaise(tree)
        /\ raised' = "IndexError"
        /\ UNCHANGED <<pval_thresh, returned, first, xl>>

\* a recursive _create_tree call has gone through both alleles: its caller
\* goes on with its next allele
Return ==
    /\ Len(stack) > 1
    /\ ~in_engine
    /\ Top.allele = Len(alleles)
    /\ stack' = [SubSeq(stack, 1, Len(stack) - 1)
                    EXCEPT ![Len(stack) - 1].allele = @ + 1]
    /\ raised' = "none"
    /\ UNCHANGED <<pval_thresh, tree, in_engine, returned, tests, first, xl>>

\* the outermost _create_tree call is over: run returns self.tree
Finish ==
    /\ Len(stack) = 1
    /\ ~in_engine
    /\ Top.allele = Len(alleles)
    /\ stack' = <<>>
    /\ returned' = TRUE
    /\ raised' = "none"
    /\ UNCHANGED <<pval_thresh, tree, in_engine, tests, first, xl>>

\* what self.method.run may come back with: any p-values, one per column
Answers == IF in_engine THEN PvalVectors(Len(Latest.cols)) ELSE {}

Next ==
    \/ \E root \in Roots : Run(root)
    \/ Leaf
    \/ CallEngine
    \/ EngineFails
    \/ \E pvals \in Answers : Terminate(pvals)
    \/ \E pvals \in Answers : AddNode(pvals)
    \/ \E pvals \in Answers : SplitIndexError(pvals)
    \/ Return
    \/ Finish

Spec == Init /\ [][Next]_vars

\* ------------------------------------------------------- the builder
Started == stack /= <<>> \/ returned

\* C1: a run() call on a builder whose run() is in progress or has returned
\* its tree raises the AssertionError, adds no node and leaves the tree, the
\* recursion in progress and the log of tests as they were.
C1_SingleUse ==
    [][\A r \in Roots :
          (Started /\ Run(r)) =>
              /\ raised' = "AssertionError"
              /\ tree' = tree
              /\ stack' = stack
              /\ tests' = tests
              /\ returned' = returned]_vars

C1_Witness ==
    /\ raised = "AssertionError"
    /\ in_engine
    /\ Len(tree) >= 2

\* C2: the tree run() returned has its root first, every other node's parent
\* index is that of an earlier node, and no (parent index, allele) pair is
\* that of two nodes.
C2_ValidArena ==
    returned =>
        /\ Len(tree) >= 1
        /\ tree[1].parent = -1 /\ tree[1].allele = -1 /\ tree[1].results = NoResult
        /\ \A i \in 2..Len(tree) :
              /\ tree[i].parent >= 0
              /\ tree[i].parent < i - 1
              /\ tree[i].allele \in Alleles
        /\ \A i, j \in 2..Len(tree) :
              (tree[i].parent = tree[j].parent /\ tree[i].allele = tree[j].allele)
                  => i = j

C2_Witness ==
    /\ returned
    /\ Len(tree) >= 5
    /\ \E i \in 2..Len(tree) : tree[i].parent >= 1 /\ tree[i].allele = 1

\* the entries of the log whose test came back from the engine
Consulted == {i \in 1..Len(tests) : tests[i].policy}

BestPval(e) == e.pvals[e.best_p_idx + 1]

Children(e) ==
    {i \in 2..Len(tree) : tree[i].parent = e.parent_idx /\ tree[i].allele = e.allele}

Tied(e) == {j \in 0..(Len(e.pvals) - 1) : e.pvals[j + 1] = BestPval(e)}

\* C6: the selected candidate has the minimum p-value of all candidates
\* tested; among the candidates holding that minimum it is the first in the
\* compacted order and the one of lowest original index; the node added for
\* it stores that minimum.
C6_TieBreak ==
    \A i \in Consulted :
        LET e == tests[i]
        IN  /\ e.best_p_idx \in 0..(Len(e.pvals) - 1)
            /\ \A j \in 0..(Len(e.pvals) - 1) : BestPval(e) <= e.pvals[j + 1]
            /\ \A j \in Tied(e) : e.best_p_idx <= j
            /\ \A j \in Tied(e) : e.cols[e.best_p_idx + 1] <= e.cols[j + 1]
            /\ (e.outcome = "add") =>
                  \A c \in Children(e) : tree[c].results.pval = BestPval(e)

C6_Witness ==
    \E i \in Consulted :
        /\ tests[i].outcome = "add"
        /\ Cardinality(Tied(tests[i])) >= 2
        /\ tests[i].best_p_idx = 0
        /\ BestPval(tests[i]) > 0

\* C7: a (node, allele) pair whose transform left no column has no node
\* under it, the association test was not called for it and the policy was
\* not consulted for it.
C7_LeafLaw ==
    \A i \in 1..Len(tests) :
        (Len(tests[i].cols) = 0) =>
            /\ tests[i].outcome = "leaf"
            /\ ~tests[i].engine
            /\ ~tests[i].policy
            /\ Children(tests[i]) = {}

C7_Witness ==
    /\ returned
    /\ \E i \in 1..Len(tests) : tests[i].cols = <<>> /\ tests[i].outcome = "leaf"
    /\ Len(tree) > NumVariants

\* the remaining candidate columns of a haplotype
Remaining(hap) == Len(HapColumns(hap))

\* C9 as stated: every recursive _create_tree call is made with a haplotype
\* that has strictly fewer remaining candidate columns than its caller's, so
\* that the recursion is never deeper than the number of variants.
C9_WellFounded ==
    /\ Len(stack) <= NumVariants
    /\ \A d \in 2..Len(stack) :
          Remaining(stack[d].parent_hap) < Remaining(stack[d - 1].parent_hap)

\* C10 as stated: run(root) with root outside 0..NumVariants-1 raises, and
\* neither creates a tree, nor adds a node, nor calls the association test.
C10_RootOutOfBounds ==
    [][\A r \in Roots \ (0..(NumVariants - 1)) :
          Run(r) =>
              /\ raised' /= "none"
              /\ tree' = tree
              /\ stack' = stack
              /\ tests' = tests]_vars

\* ------------------------------------------------- the tree being built
\* node i of the arena (0-based, as add_node counts) is tree[i + 1]
Node(i) == tree[i + 1]

NodeIdxs == 0..(Len(tree) - 1)

RECURSIVE Depth(_)
Depth(i) == IF Node(i).parent < 0 THEN 0 ELSE 1 + Depth(Node(i).parent)

RECURSIVE Ancestors(_)
Ancestors(i) ==
    IF Node(i).parent < 0 THEN {}
    ELSE {Node(i).parent} \cup Ancestors(Node(i).parent)

\* the (variant, edge allele) pairs along the path from the root to node i
RECURSIVE PathTo(_)
PathTo(i) ==
    IF Node(i).parent < 0 THEN <<>>
    ELSE Append(PathTo(Node(i).parent),
                <<Node(Node(i).parent).variant, Node(i).allele>>)

\* node i is in the subtree under the pair (node n, allele a)
RECURSIVE InSubtree(_, _, _)
InSubtree(i, n, a) ==
    IF Node(i).parent < 0 THEN FALSE
    ELSE \/ Node(i).parent = n /\ Node(i).allele = a
         \/ InSubtree(Node(i).parent, n, a)

EngineFailed == tests /= <<>> /\ Latest.outcome = "engine_error"

ValidRoot == tree /= None /\ Node(0).variant.idx \in 0..(NumVariants - 1)

\* C11 as stated: a tree the builder's tree attribute holds is complete, no
\* node is added to it any more; the attribute is unset until then.
C11_NoPartialTree == [][tree /= None => tree' = tree]_vars

\* C12: once the association test has failed, its entry is the last of the
\* log, the exception run() raised is the engine's, run() has not returned a
\* tree and no frame of the recursion is left; the failing test was not
\* treated as a leaf or as terminated (the policy was not consulted), no node
\* is under its pair, and the tree holds the nodes added before it only.
C12_EnginePropagates ==
    \A i \in 1..Len(tests) :
        (tests[i].outcome = "engine_error") =>
            /\ i = Len(tests)
            /\ raised \in {"EngineError", "AssertionError"}
            /\ ~returned
            /\ stack = <<>>
            /\ ~in_engine
            /\ tests[i].engine /\ ~tests[i].policy
            /\ Children(tests[i]) = {}
            /\ Len(tree) =
                  1 + Cardinality({j \in 1..(i - 1) : tests[j].outcome = "add"})

C12_Witness ==
    /\ EngineFailed
    /\ raised = "EngineError"
    /\ Len(tests) >= 4
    /\ Len(tree) >= 3
    /\ Latest.allele = 1

\* C13 as stated: every test that is not terminated has exactly one node
\* under its (parent index, allele), whose variant is the selected column's
\* original index in the genotype matrix and whose result is the engine's
\* record at the compacted index; the recursion goes on under that node.
C13_NodeAdded ==
    /\ \A i \in Consulted :
          LET e == tests[i]
          IN  (e.outcome /= "terminate") =>
                  \E c \in Children(e) :
                      /\ Children(e) = {c}
                      /\ tree[c].variant.idx = e.cols[e.best_p_idx + 1]
                      /\ tree[c].variant.id = e.cols[e.best_p_idx + 1]
                      /\ tree[c].results = [pval |-> BestPval(e)]
    /\ \A d \in 2..Len(stack) :
          /\ stack[d].parent_idx \in NodeIdxs
          /\ Node(stack[d].parent_idx).parent = stack[d - 1].parent_idx
          /\ Node(stack[d].parent_idx).variant = stack[d].parent

\* C14: the haplotype of every test is the path from the root to the node
\* tested followed by (that node's variant, the allele tested), and the
\* haplotype every frame of the recursion holds is the path to its node,
\* whatever was tested below it since.
C14_HaplotypeIsPath ==
    /\ \A k \in 1..Len(tests) :
          tests[k].hap =
              Append(PathTo(tests[k].parent_idx),
                     <<Node(tests[k].parent_idx).variant, tests[k].allele>>)
    /\ \A d \in 1..Len(stack) :
          stack[d].parent_hap = PathTo(stack[d].parent_idx)

C14_Witness ==
    \E k \in 1..Len(tests) :
        /\ tests[k].allele = 1
        /\ tests[k].parent_idx >= 1
        /\ Len(tests[k].hap) = 2
        /\ \E i \in NodeIdxs : InSubtree(i, tests[k].parent_idx, 0)

\* the test k of the log is the test of the pair (n, 0) or of a pair in the
\* subtree under it
TestUnderZero(k, n) ==
    \/ tests[k].parent_idx = n /\ tests[k].allele = 0
    \/ InSubtree(tests[k].parent_idx, n, 0)

\* C15: every node of the subtree under (n, 0) has a smaller index than every
\* node of the subtree under (n, 1), and every test of the subtree under
\* (n, 0), with those that added its nodes, comes before the test of (n, 1).
C15_DepthFirst ==
    /\ \A n \in NodeIdxs : \A i, j \in NodeIdxs :
          (InSubtree(i, n, 0) /\ InSubtree(j, n, 1)) => i < j
    /\ \A k1, k2 \in 1..Len(tests) :
          (tests[k2].allele = 1 /\ TestUnderZero(k1, tests[k2].parent_idx))
              => k1 < k2

C15_Witness ==
    /\ returned
    /\ \E n \in NodeIdxs : \E i, j \in NodeIdxs :
          /\ InSubtree(i, n, 0)
          /\ Node(i).parent /= n
          /\ InSubtree(j, n, 1)

TestsOf(n, a) ==
    {k \in 1..Len(tests) : tests[k].parent_idx = n /\ tests[k].allele = a}

\* C16: when the test of (n, 0) ends in a leaf or in a termination, the loop
\* is at allele 1 of n and the next test is that of (n, 1); in the tree
\* run() returned, every node has one test under allele 0 and one under
\* allele 1.
C16_LocalStop ==
    /\ \A k \in 1..Len(tests) :
          (tests[k].allele = 0 /\ tests[k].outcome \in {"leaf", "terminate"}) =>
              IF k = Len(tests)
              THEN InLoop /\ Top.parent_idx = tests[k].parent_idx /\ Allele = 1
              ELSE /\ tests[k + 1].parent_idx = tests[k].parent_idx
                   /\ tests[k + 1].allele = 1
    /\ returned =>
          \A n \in NodeIdxs : \A a \in Alleles : Cardinality(TestsOf(n, a)) = 1

C16_Witness ==
    /\ returned
    /\ \E k \in 1..(Len(tests) - 1) :
          /\ tests[k].allele = 0
          /\ tests[k].outcome = "terminate"
          /\ tests[k + 1].outcome = "add"
    /\ \E k \in 1..(Len(tests) - 1) :
          /\ tests[k].allele = 0
          /\ tests[k].outcome = "leaf"

\* C17: in a build from a root in 0..NumVariants-1, every node's variant
\* index is in 0..NumVariants-1 and is that of none of its ancestors, no path
\* has more than NumVariants nodes, and no translated index was out of range.
C17_NoRepeatOnPath ==
    ValidRoot =>
        /\ \A i \in NodeIdxs :
              /\ Node(i).variant.idx \in 0..(NumVariants - 1)
              /\ \A j \in Ancestors(i) : Node(j).variant.idx /= Node(i).variant.idx
              /\ Depth(i) + 1 <= NumVariants
        /\ \A k \in 1..Len(tests) : tests[k].outcome /= "index_error"

C17_Witness ==
    /\ ValidRoot
    /\ Node(0).variant.idx = 1
    /\ \E i, j \in NodeIdxs :
          /\ Depth(i) = NumVariants - 1
          /\ Node(i).variant.idx = 0
          /\ Depth(j) = NumVariants - 1
          /\ Node(j).variant.idx = NumVariants - 1

\* C18 as stated: the node a test added at depth d stores the minimum of the
\* p-values of that test, which had NumVariants - d candidates, and that
\* minimum is below pval_thresh / (NumVariants - d).
C18_DepthThreshold ==
    \A k \in Consulted :
        (tests[k].outcome = "add") =>
            \A c \in Children(tests[k]) :
                LET d == Depth(c - 1)
                    p == tree[c].results.pval
                IN  /\ \A j \in 1..Len(tests[k].pvals) : p <= tests[k].pvals[j]
                    /\ \E j \in 1..Len(tests[k].pvals) : p = tests[k].pvals[j]
                    /\ Len(tests[k].pvals) = NumVariants - d
                    /\ p * (NumVariants - d) < pval_thresh

\* C19: every call of check_terminate_branch had num_tests between 1 and
\* NumVariants - 1, the number of columns the association test was given.
C19_NumTestsPositive ==
    \A k \in Consulted :
        /\ tests[k].num_tests >= 1
        /\ tests[k].num_tests <= NumVariants - 1
        /\ tests[k].num_tests = Len(tests[k].cols)

C19_Witness ==
    /\ \E k \in Consulted : tests[k].num_tests = 1
    /\ \E k \in Consulted : tests[k].num_tests = NumVariants - 1

\* C20: the step in which the association test fails leaves the tree set and
\* as it was; from then on every step leaves it so, and every run() call
\* raises the AssertionError and starts no build.
C20_FailedNotReusable ==
    [][/\ EngineFails => (tree' = tree /\ tree' /= None)
       /\ EngineFailed =>
             /\ tree /= None
             /\ tree' = tree
             /\ \A r \in Roots :
                   Run(r) =>
                       /\ raised' = "AssertionError"
                       /\ stack' = stack
                       /\ in_engine' = in_engine
                       /\ tests' = tests
                       /\ returned' = returned]_vars

C20_Witness ==
    /\ EngineFailed
    /\ raised = "AssertionError"
    /\ Len(tree) >= 3
    /\ ~returned

\* ----------------------------------- two builders on the same data
\* A second fresh TreeBuilder is made for the genotypes, phenotypes and
\* method of the one that has returned its tree, which is kept aside with the
\* log of its tests.
SecondBuilder ==
    /\ returned
    /\ first = NoFirst
    /\ first' = [tree |-> tree, tests |-> tests]
    /\ tree' = None
    /\ stack' = <<>>
    /\ in_engine' = FALSE
    /\ raised' = "none"
    /\ returned' = FALSE
    /\ tests' = <<>>
    /\ UNCHANGED <<pval_thresh, xl>>

\* run(root) on a fresh builder; the second builder is given the root the
\* first was given
DetRun(root) ==
    /\ tree = None
    /\ first /= NoFirst => root = first.tree[1].variant.idx
    /\ Run(root)

\* The association test is a function of its input: on the haplotype matrix
\* of a haplotype the first builder tested, it returns what it returned then.
SameAnswer(hap, pvals) ==
    \A i \in 1..Len(first.tests) :
        (first.tests[i].hap = hap /\ first.tests[i].policy)
            => pvals = first.tests[i].pvals

DetAnswers == {pvals \in Answers : SameAnswer(Latest.hap, pvals)}

DetNext ==
    \/ \E root \in Roots : DetRun(root)
    \/ Leaf
    \/ CallEngine
    \/ \E pvals \in DetAnswers : Terminate(pvals)
    \/ \E pvals \in DetAnswers : AddNode(pvals)
    \/ \E pvals \in DetAnswers : SplitIndexError(pvals)
    \/ Return
    \/ Finish
    \/ SecondBuilder

DetSpec == Init /\ [][DetNext]_vars

RECURSIVE Descending(_, _, _)
Descending(S, lo, hi) ==
    IF lo > hi THEN <<>>
    ELSE IF hi \in S THEN <<hi>> \o Descending(S, lo, hi - 1)
    ELSE Descending(S, lo, hi - 1)

\* node_indices is in path order, which is any order: the two extreme orders
\* of a set of included indices
Orders(E, n) == {Ascending(E, 0, n - 1), Descending(E, 0, n - 1)}

\* a haplotype's node indices out of nv variants, and a compacted position
\* among the columns transform leaves
XlInputsOn(E, n) ==
    {[nv |-> n, included |-> t, k |-> k, out |-> -1, done |-> FALSE] :
        t \in Orders(E, n), k \in 0..(n - Cardinality(E) - 1)}

XlInputs ==
    UNION {UNION {XlInputsOn(E, n) : E \in SUBSET (0..(n - 1))} : n \in 1..MaxTV}

XlInit ==
    /\ pval_thresh = 1
    /\ FreshBuilder
    /\ first = NoFirst
    /\ xl \in XlInputs

\* _find_split steps 5 and 6 on the drawn haplotype and position
XlTranslate ==
    /\ ~xl.done
    /\ xl' = [xl EXCEPT !.out = BestIndex(xl.included, xl.k), !.done = TRUE]
    /\ UNCHANGED <<builder, first>>

XlNext == XlTranslate

XlSpec == XlInit /\ [][XlNext]_vars

XlIncluded == {xl.included[j] : j \in DOMAIN xl.included}

XlLeft == (0..(xl.nv - 1)) \ XlIncluded

\* C3: the translated index is the k-th smallest (from 0) of the variant
\* indices the haplotype does not include, that is the original index of the
\* column at compacted position k.
C3_TranslationExact ==
    xl.done =>
        /\ xl.out \in XlLeft
        /\ Cardinality({y \in XlLeft : y < xl.out}) = xl.k

C3_Witness ==
    /\ xl.done
    /\ Cardinality(XlIncluded) >= 2
    /\ \E e \in XlIncluded : e = xl.k
    /\ \E e \in XlIncluded : e > xl.out
    /\ xl.out > xl.k + 1

\* C4 as stated: with {2, 5, 7} included out of 10 variants, the compacted
\* position 3 is translated to 6.
C4_Original ==
    (xl.done /\ xl.nv = 10 /\ XlIncluded = {2, 5, 7} /\ xl.k = 3) => xl.out = 6

\* C4: with {2, 5, 7} included out of 10 variants, the compacted position 3
\* is translated to 4, the fourth of the columns 0, 1, 3, 4, 6, 8, 9 that are
\* left; it is the compacted position 4 that is translated to 6.
C4_Translates3To4 ==
    /\ (xl.done /\ xl.nv = 10 /\ XlIncluded = {2, 5, 7} /\ xl.k = 3) => xl.out = 4
    /\ (xl.done /\ xl.nv = 10 /\ XlIncluded = {2, 5, 7} /\ xl.k = 4) => xl.out = 6

C4_Witness ==
    xl.done /\ xl.nv = 10 /\ XlIncluded = {2, 5, 7} /\ xl.k = 3 /\ xl.out = 4

====
